---- MODULE Spec2Model ----
(***************************************************************************)
(* A model of hotspot/share/oops/cpSegment.{hpp,cpp}: the two-pass layout  *)
(* of a CPSegmentInfo (CPSegmentInfo::allocate) and the creation and       *)
(* registration of ConstantPoolSegments (CPSegmentInfo::create_segment).   *)
(*                                                                         *)
(* The model is of the debug (ASSERT) build on an LP64 platform: assert()  *)
(* is checked and a failed assert, like ShouldNotReachHere(), stops the    *)
(* VM (vm_error is set and no thread takes another step).                  *)
(*                                                                         *)
(* Four specifications share the variables:                                *)
(*   Spec        threads calling new_class_segment / new_method_segment on *)
(*               the three shapes of one constant pool;                    *)
(*   SpecFair    Spec with every thread scheduled fairly;                  *)
(*   SpecLayout  one call of CPSegmentInfo::allocate, its inputs drawn in  *)
(*               InitLayout, and the shape's metaspace_pointers_do run on  *)
(*               what it returned;                                         *)
(*   SpecHook    ConstantPoolSegment::metaspace_pointers_do run on one     *)
(*               instance in any state of its fields.                      *)
(***************************************************************************)
EXTENDS Integers, Sequences, FiniteSets, TLC

\* ------------------------------------------------------------------ bounds
NumThreads == 2
MaxConstants == 3

\* --------------------------------------------------------------- constants
NULL == 0
wordSize == 8
\* JVM constant-pool tags. MethodHandle, Dynamic and InvokeDynamic have their
\* class-file values; the values of Parameter and Linkage are set outside the
\* files modelled here (the comparator special-cases both, so the order it
\* defines does not depend on them as long as they differ from the others).
JVM_CONSTANT_Class == 7
JVM_CONSTANT_MethodHandle == 15
JVM_CONSTANT_Dynamic == 17
JVM_CONSTANT_InvokeDynamic == 18
JVM_CONSTANT_Parameter == 21
JVM_CONSTANT_Linkage == 22
\* CInfo::_index_shift and CInfo::_tag_mask
index_shift == 8
tag_mask == (2 ^ index_shift) - 1
\* sizeof(CInfo): three ints
sizeof_CInfo == 12
\* sizeof(CPSegmentInfo): one pointer and six ints; sizeof(ConstantPoolSegment):
\* three pointers and an OopHandle
sizeof_CPSegmentInfo == 32
sizeof_ConstantPoolSegment == 32
\* ConstantPoolSegment's fixed offsets in the refs array
argument_ref_index == 0
handle_ref_index == 1
cseg_refs_ref_index == 2
fixed_ref_limit == 3
parameter_subindex == 0

JVM_PARAM_Class == "JVM_PARAM_Class"
JVM_PARAM_MethodOnly == "JVM_PARAM_MethodOnly"
JVM_PARAM_MethodAndClass == "JVM_PARAM_MethodAndClass"
ParamKinds == {JVM_PARAM_Class, JVM_PARAM_MethodOnly, JVM_PARAM_MethodAndClass}

Threads == 1 .. NumThreads
Segnums == 1 .. 3
NoError == "none"

\* ------------------------------------------------ the constant pool's tags
\* cp->tag_at(index).value() of the pool the shapes are built over: every
\* supported tag, three Parameters (one per shape), two Linkages and one
\* unsupported tag (Class).
tag_at(index) ==
  CASE index = 1 -> JVM_CONSTANT_InvokeDynamic
    [] index = 2 -> JVM_CONSTANT_Linkage
    [] index = 3 -> JVM_CONSTANT_MethodHandle
    [] index = 4 -> JVM_CONSTANT_Parameter
    [] index = 5 -> JVM_CONSTANT_Parameter
    [] index = 6 -> JVM_CONSTANT_Parameter
    [] index = 7 -> JVM_CONSTANT_Class
    [] index = 8 -> JVM_CONSTANT_Linkage
    [] index = 9 -> JVM_CONSTANT_Dynamic
CpIndexes == 1 .. 9

\* ---------------------------------------------------------- pure functions
align_up(size, alignment) == ((size + alignment - 1) \div alignment) * alignment

\* Setup::byte_size_to_word_size
byte_size_to_word_size(size_in_bytes) == align_up(size_in_bytes, wordSize) \div wordSize

\* Setup::size_to_int: (int) size, or -1 when the value does not survive the cast
size_to_int(size) == IF size >= 0 /\ size <= 2147483647 THEN size ELSE -1

CPSegmentInfo_header_size == align_up(sizeof_CPSegmentInfo, wordSize) \div wordSize
ConstantPoolSegment_header_size == align_up(sizeof_ConstantPoolSegment, wordSize) \div wordSize

\* CInfo::index_and_tag: (index << _index_shift) | tag, for tag within 8 bits
index_and_tag(index, tag) == index * (2 ^ index_shift) + tag
\* CInfo::index() and CInfo::tag() of a packed value
CInfo_index(it) == it \div (2 ^ index_shift)
CInfo_tag(it) == it % (tag_mask + 1)

\* A variant of the comparator without the Linkage cases of its switches:
\* Linkage is ordered by its raw tag value like the tags after it
compare_index_and_tag_NoLinkageCase(it1, it2) ==
  LET t1 == it1 % (tag_mask + 1)
      t2 == it2 % 256
  IN  IF t1 = t2 THEN it1 - it2
      ELSE IF t1 = JVM_CONSTANT_Parameter THEN -1
      ELSE IF t2 = JVM_CONSTANT_Parameter THEN 1
      ELSE t1 - t2

\* A variant of the comparator without the test for equal tags: two values
\* of one tag go through the switches like two values of different tags
compare_index_and_tag_NoEqualTagsCase(it1, it2) ==
  LET t1 == it1 % (tag_mask + 1)
      t2 == it2 % 256
  IN  IF t1 = JVM_CONSTANT_Parameter THEN -1
      ELSE IF t2 = JVM_CONSTANT_Parameter THEN 1
      ELSE (IF t1 = JVM_CONSTANT_Linkage THEN 0 ELSE t1)
           - (IF t2 = JVM_CONSTANT_Linkage THEN 0 ELSE t2)

\* CInfo::compare_index_and_tag
compare_index_and_tag(it1, it2) ==
  LET t1 == it1 % (tag_mask + 1)
      t2 == it2 % 256
  IN  IF t1 = t2 THEN it1 - it2
      ELSE IF t1 = JVM_CONSTANT_Parameter THEN -1
      ELSE IF t2 = JVM_CONSTANT_Parameter THEN 1
      ELSE (IF t1 = JVM_CONSTANT_Linkage THEN 0 ELSE t1)
           - (IF t2 = JVM_CONSTANT_Linkage THEN 0 ELSE t2)

\* GrowableArray<int>::sort(compare_index_and_tag): the array in the order
\* the comparator defines (computed by insertion)
RECURSIVE sort_insert(_, _)
sort_insert(it, sorted) ==
  IF sorted = <<>> THEN <<it>>
  ELSE IF compare_index_and_tag(it, Head(sorted)) <= 0 THEN <<it>> \o sorted
  ELSE <<Head(sorted)>> \o sort_insert(it, Tail(sorted))

RECURSIVE sort(_)
sort(a) == IF a = <<>> THEN <<>> ELSE sort_insert(Head(a), sort(Tail(a)))

\* the loop "sort the constants" pushes index_and_tag(index, tag_at(index))
push_indexes_and_tags(constants) ==
  [i \in 1 .. Len(constants) |-> index_and_tag(constants[i], tag_at(constants[i]))]

\* A zero-filled CInfo, as the metaspace allocator hands it out
ZeroCInfo == [_index_and_tag |-> 0, _offset_in_meta |-> 0, _offset_in_refs |-> 0]

\* ssize and nrefs of one constant, from the switch on its tag
\* A variant of the switch with a case for Class among the storage cases
SupportedStorageTags_WithClass ==
  {JVM_CONSTANT_Linkage, JVM_CONSTANT_InvokeDynamic, JVM_CONSTANT_Dynamic,
   JVM_CONSTANT_MethodHandle, JVM_CONSTANT_Class}
SupportedStorageTags ==
  {JVM_CONSTANT_Linkage, JVM_CONSTANT_InvokeDynamic, JVM_CONSTANT_Dynamic,
   JVM_CONSTANT_MethodHandle}
\* A variant of ssize_of that gives every constant, the Parameter too, a
\* word of the segment
ssize_of_EveryConstant(it) == wordSize
ssize_of(it) == IF CInfo_tag(it) \in SupportedStorageTags THEN wordSize ELSE 0
\* A variant of nrefs_of that counts a ref for every constant, the Parameter
\* too
nrefs_of_EveryConstant(it) == 1
nrefs_of(it) == IF CInfo_tag(it) \in SupportedStorageTags THEN 1 ELSE 0

\* A variant of initialize_cinfo that stores the refs offset whether or not
\* the constant has a ref
initialize_cinfo_AlwaysRefs(ci, it, segment_offset, refs_offset) ==
  [ci EXCEPT !._index_and_tag = it,
             !._offset_in_meta = segment_offset,
             !._offset_in_refs = refs_offset]

\* A variant of initialize_cinfo that stores the first free refs index
\* instead of the running one
initialize_cinfo_RefsAtLimit(ci, it, segment_offset, refs_offset) ==
  [ci EXCEPT !._index_and_tag = it,
             !._offset_in_meta = segment_offset,
             !._offset_in_refs = IF nrefs_of(it) # 0 THEN fixed_ref_limit ELSE @]

\* A variant of initialize_cinfo that stores the segment offset after the
\* constant's size has been added to it
initialize_cinfo_MetaAfterAdvance(ci, it, segment_offset, refs_offset) ==
  [ci EXCEPT !._index_and_tag = it,
             !._offset_in_meta = segment_offset + ssize_of(it),
             !._offset_in_refs = IF nrefs_of(it) # 0 THEN refs_offset ELSE @]

\* A variant of initialize_cinfo that adds the offsets to what the CInfo
\* holds; on the zero-filled block of the first run it stores the same values
initialize_cinfo_AddsToOffsets(ci, it, segment_offset, refs_offset) ==
  [ci EXCEPT !._index_and_tag = it,
             !._offset_in_meta = @ + segment_offset,
             !._offset_in_refs = IF nrefs_of(it) # 0 THEN @ + refs_offset ELSE @]

\* A variant of initialize_cinfo that stores the packed value only for a
\* constant with storage in the segment
initialize_cinfo_ValueOnlyWithStorage(ci, it, segment_offset, refs_offset) ==
  [ci EXCEPT !._index_and_tag = IF ssize_of(it) # 0 THEN it ELSE @,
             !._offset_in_meta = segment_offset,
             !._offset_in_refs = IF nrefs_of(it) # 0 THEN refs_offset ELSE @]

\* What pass 2 stores into the CInfo at position i for the packed value it
initialize_cinfo(ci, it, segment_offset, refs_offset) ==
  [ci EXCEPT !._index_and_tag = it,
             !._offset_in_meta = segment_offset,
             !._offset_in_refs = IF nrefs_of(it) # 0 THEN refs_offset ELSE @]

\* The loop "size each constant" of size_and_initialize_passes, from
\* position i (0-based) on. acc holds the two running offsets, the CInfo
\* array (written only in the initialize pass) and the error that stopped
\* the walk, if any.
RECURSIVE size_each(_, _, _, _)
size_each(i, its, initialize_pass, acc) ==
  IF i >= Len(its) \/ acc.error # NoError THEN acc
  ELSE
    LET it  == its[i + 1]
        tag == CInfo_tag(it)
    IN  IF tag = JVM_CONSTANT_Parameter /\ i # 0
          THEN [acc EXCEPT !.error = "assert(i == 0) failed: must be"]
        ELSE IF tag # JVM_CONSTANT_Parameter /\ tag \notin SupportedStorageTags
          THEN [acc EXCEPT !.error = "ShouldNotReachHere"]
        ELSE size_each(i + 1, its, initialize_pass,
               [acc EXCEPT
                  !.cinfo = IF initialize_pass
                              THEN [@ EXCEPT ![i + 1] =
                                      initialize_cinfo(@, it, acc.segment_offset,
                                                       acc.refs_offset)]
                              ELSE @,
                  !.segment_offset = @ + ssize_of(it),
                  !.refs_offset = @ + nrefs_of(it)])

\* A variant of walk that sets the starting offsets in the sizing pass only
\* and lets the initialize pass start from the offsets reset_offsets left
walk_StartsFromReset(its, constant_count, initialize_pass, cinfo) ==
  LET r == size_each(0, its, initialize_pass,
             [segment_offset |-> IF initialize_pass THEN 0
                                 ELSE ConstantPoolSegment_header_size * wordSize,
              refs_offset |-> IF initialize_pass THEN 0 ELSE fixed_ref_limit,
              cinfo |-> cinfo,
              error |-> NoError])
  IN  [info_offset |-> (IF initialize_pass THEN 0
                        ELSE CPSegmentInfo_header_size * wordSize)
                        + sizeof_CInfo * constant_count,
       segment_offset |-> r.segment_offset,
       refs_offset |-> r.refs_offset,
       cinfo |-> r.cinfo,
       error |-> r.error]

\* A variant of walk whose refs_offset starts at 0 instead of the fixed limit
walk_RefsFromZero(its, constant_count, initialize_pass, cinfo) ==
  LET r == size_each(0, its, initialize_pass,
             [segment_offset |-> ConstantPoolSegment_header_size * wordSize,
              refs_offset |-> 0,
              cinfo |-> cinfo,
              error |-> NoError])
  IN  [info_offset |-> CPSegmentInfo_header_size * wordSize
                        + sizeof_CInfo * constant_count,
       segment_offset |-> r.segment_offset,
       refs_offset |-> r.refs_offset,
       cinfo |-> r.cinfo,
       error |-> r.error]

\* size_and_initialize_passes after its sort: the offsets start at the header
\* sizes and the fixed ref limit, the loop runs, and info_offset gets
\* sizeof(CInfo) * constant_count on top of the header.
walk(its, constant_count, initialize_pass, cinfo) ==
  LET r == size_each(0, its, initialize_pass,
             [segment_offset |-> ConstantPoolSegment_header_size * wordSize,
              refs_offset |-> fixed_ref_limit,
              cinfo |-> cinfo,
              error |-> NoError])
  IN  [info_offset |-> CPSegmentInfo_header_size * wordSize
                        + sizeof_CInfo * constant_count,
       segment_offset |-> r.segment_offset,
       refs_offset |-> r.refs_offset,
       cinfo |-> r.cinfo,
       error |-> r.error]

\* ------------------------------------------------------------------- state
VARIABLES
  vm_error,        \* NoError, or the assert / fatal error that stopped the VM
  infos,           \* segnum -> NULL or the CPSegmentInfo allocated for it
  s,               \* allocate's Setup block
  saved,           \* allocate's DEBUG_ONLY copy of s, NULL before it is taken
  a_pc,            \* where allocate stands
  a_ret,           \* what allocate returned
  a_pending,       \* allocate's pending exception
  closure,         \* the MetaspaceClosure: whether the shape's
                   \* metaspace_pointers_do ran on it, and the slots pushed
  frame,           \* thread -> its create_segment activation
  heap,            \* objArrayOop id -> the array (a sequence of oops)
  handles,         \* the loader data's handle storage: the oops it holds
  handle_adds,     \* add_handle calls so far
  handle_removes,  \* remove_handle calls so far
  segs,            \* ConstantPoolSegment* -> the segment's fields
  head,            \* segnum -> _pool->segment_list_head_at(segnum)
  lock_owner       \* the thread in ObjectLocker on resolved_references(), or NULL

layout_vars == <<infos, s, saved, a_pc, a_ret, a_pending, closure>>
create_vars == <<frame, heap, handles, handle_adds, handle_removes, segs, head,
                 lock_owner>>
vars == <<vm_error, layout_vars, create_vars>>

\* ------------------------------------------------- CPSegmentInfo::allocate
\* Setup::Setup() followed by allocate's copy of its arguments into s
Setup_with(segnum, parameter_index, param_kind, constants) ==
  [_segnum |-> segnum,
   _parameter_index |-> parameter_index,
   _param_kind |-> param_kind,
   _constants |-> constants,
   _indexes_and_tags |-> <<>>,
   _info_offset_in_bytes |-> 0,
   _info_size_in_bytes |-> -1,
   _segment_offset_in_bytes |-> 0,
   _segment_size_in_bytes |-> -1,
   _refs_offset |-> 0,
   _refs_length |-> -1,
   _info |-> NULL]

\* Setup::reset_offsets
reset_offsets(st) ==
  [st EXCEPT !._info_offset_in_bytes = 0,
             !._segment_offset_in_bytes = 0,
             !._refs_offset = 0]

\* Setup::copy_offsets_to_sizes
copy_offsets_to_sizes(st) ==
  [st EXCEPT !._info_size_in_bytes = st._info_offset_in_bytes,
             !._segment_size_in_bytes = st._segment_offset_in_bytes,
             !._refs_length = st._refs_offset]

\* Setup::same_offsets_as
same_offsets_as(this, that) ==
  /\ that._info_offset_in_bytes = this._info_offset_in_bytes
  /\ that._segment_offset_in_bytes = this._segment_offset_in_bytes
  /\ that._refs_offset = this._refs_offset

\* A variant of the sizing pass without the assert on the first sorted value
sizing_pass_NoSortAssert(st) ==
  LET its == sort(push_indexes_and_tags(st._constants))
      w   == walk(its, Len(st._constants), FALSE, <<>>)
      err == IF Len(its) = 0
               THEN "assert(0 <= i && i < _len) failed: illegal index"
             ELSE w.error
  IN  [error |-> err,
       setup |-> IF err # NoError
                   THEN [st EXCEPT !._indexes_and_tags = its]
                   ELSE [st EXCEPT !._indexes_and_tags = its,
                                   !._info_offset_in_bytes = w.info_offset,
                                   !._segment_offset_in_bytes = w.segment_offset,
                                   !._refs_offset = w.refs_offset]]

\* The sizing pass (initialize_pass = false) on st: the sort with its asserts,
\* then the walk. The result is the Setup block and the error, if any.
sizing_pass(st) ==
  LET its == sort(push_indexes_and_tags(st._constants))
      w   == walk(its, Len(st._constants), FALSE, <<>>)
      err == IF Len(its) = 0
               THEN "assert(0 <= i && i < _len) failed: illegal index"
             ELSE IF its[1] # index_and_tag(st._parameter_index, JVM_CONSTANT_Parameter)
               THEN "assert(it0 == index_and_tag(parameter_index, Parameter)) failed: correct sort"
             ELSE w.error
  IN  [error |-> err,
       setup |-> IF err # NoError
                   THEN [st EXCEPT !._indexes_and_tags = its]
                   ELSE [st EXCEPT !._indexes_and_tags = its,
                                   !._info_offset_in_bytes = w.info_offset,
                                   !._segment_offset_in_bytes = w.segment_offset,
                                   !._refs_offset = w.refs_offset]]

\* CPSegmentInfo::CPSegmentInfo(Setup&) on a zero-filled block
new_CPSegmentInfo(st) ==
  [_segnum |-> st._segnum,
   _flags |-> st._param_kind,
   _reflen |-> size_to_int(st._refs_length),
   _info_size_in_words |-> byte_size_to_word_size(st._info_size_in_bytes),
   _segment_size_in_words |-> byte_size_to_word_size(st._segment_size_in_bytes),
   _constant_count |-> Len(st._indexes_and_tags),
   cinfo |-> [i \in 1 .. Len(st._indexes_and_tags) |-> ZeroCInfo]]

\* The initialize pass (initialize_pass = true) on st and the info block
initialize_pass_on(st, info) ==
  LET w   == walk(st._indexes_and_tags, Len(st._constants), TRUE, info.cinfo)
      err == IF info._constant_count # Len(st._constants)
               THEN "assert(info->_constant_count == constant_count) failed: already done"
               ELSE w.error
  IN  [error |-> err,
       setup |-> [st EXCEPT !._info_offset_in_bytes = w.info_offset,
                            !._segment_offset_in_bytes = w.segment_offset,
                            !._refs_offset = w.refs_offset],
       info  |-> [info EXCEPT !.cinfo = w.cinfo]]

\* line 248: size_and_initialize_passes(false, s, CHECK_NULL)
Pass1 ==
  /\ vm_error = NoError
  /\ a_pc = "pass1"
  /\ LET r == sizing_pass(s)
     IN  /\ s' = r.setup
         /\ vm_error' = r.error
         /\ a_pc' = IF r.error = NoError THEN "copy_sizes" ELSE "aborted"
  /\ UNCHANGED <<infos, saved, a_ret, a_pending, closure, create_vars>>

\* line 249: s.copy_offsets_to_sizes()
CopyOffsetsToSizes ==
  /\ vm_error = NoError
  /\ a_pc = "copy_sizes"
  /\ s' = copy_offsets_to_sizes(s)
  /\ a_pc' = "new_info"
  /\ UNCHANGED <<vm_error, infos, saved, a_ret, a_pending, closure, create_vars>>

\* A variant of NewInfo without the CHECK_NULL: the allocation that leaves
\* an exception pending still hands out a block and allocate goes on
NewInfo_NoCheck(ok) ==
  /\ vm_error = NoError
  /\ a_pc = "new_info"
  /\ infos' = [infos EXCEPT ![s._segnum] = new_CPSegmentInfo(s)]
  /\ s' = [s EXCEPT !._info = s._segnum]
  /\ a_pending' = ~ok
  /\ a_pc' = "save"
  /\ UNCHANGED <<vm_error, a_ret, saved, closure, create_vars>>

\* lines 253-254: the metaspace allocation of the info block and its
\* constructor; with ok = FALSE the allocation fails, leaves an exception
\* pending and CHECK_NULL returns NULL
NewInfo(ok) ==
  /\ vm_error = NoError
  /\ a_pc = "new_info"
  /\ IF ok
       THEN LET info == new_CPSegmentInfo(s)
            IN  IF info._reflen >= fixed_ref_limit
                  THEN /\ infos' = [infos EXCEPT ![s._segnum] = info]
                       /\ s' = [s EXCEPT !._info = s._segnum]
                       /\ a_pc' = "save"
                       /\ UNCHANGED <<vm_error, a_ret, a_pending>>
                  ELSE /\ vm_error' = "assert(_reflen >= _fixed_ref_limit) failed"
                       /\ a_pc' = "aborted"
                       /\ UNCHANGED <<infos, s, a_ret, a_pending>>
       ELSE /\ a_pending' = TRUE
            /\ a_ret' = NULL
            /\ a_pc' = "returned"
            /\ UNCHANGED <<vm_error, infos, s>>
  /\ UNCHANGED <<saved, closure, create_vars>>

\* lines 256-257: DEBUG_ONLY(Setup saved = s); s.reset_offsets()
SaveAndReset ==
  /\ vm_error = NoError
  /\ a_pc = "save"
  /\ saved' = s
  /\ s' = reset_offsets(s)
  /\ a_pc' = "pass2"
  /\ UNCHANGED <<vm_error, infos, a_ret, a_pending, closure, create_vars>>

\* line 258: size_and_initialize_passes(true, s, THREAD)
Pass2 ==
  /\ vm_error = NoError
  /\ a_pc = "pass2"
  /\ LET r == initialize_pass_on(s, infos[s._info])
     IN  /\ vm_error' = r.error
         /\ IF r.error = NoError
              THEN /\ s' = r.setup
                   /\ infos' = [infos EXCEPT ![s._info] = r.info]
                   /\ a_pc' = "check"
              ELSE /\ a_pc' = "aborted"
                   /\ UNCHANGED <<s, infos>>
  /\ UNCHANGED <<saved, a_ret, a_pending, closure, create_vars>>

\* lines 259-260: assert(saved.same_offsets_as(s)); return s._info
AssertAndReturn ==
  /\ vm_error = NoError
  /\ a_pc = "check"
  /\ IF same_offsets_as(saved, s)
       THEN /\ a_ret' = s._info
            /\ a_pc' = "returned"
            /\ UNCHANGED vm_error
       ELSE /\ vm_error' = "assert(saved.same_offsets_as(s)) failed: the passes have to agree"
            /\ a_pc' = "aborted"
            /\ UNCHANGED a_ret
  /\ UNCHANGED <<infos, s, saved, a_pending, closure, create_vars>>

\* A closure nothing was pushed to yet
EmptyClosure == [ran |-> FALSE, slots |-> {}, wrote |-> <<>>]
\* The address of a field of a metaspace object: its class, the object
\* (here the segnum of the shape) and the field
pool_slot(n) == <<"CPSegmentInfo", n, "_pool">>
\* The address segment_list_head() returns: the element for _segnum of the
\* pool's list heads, a field of the ConstantPool
segment_list_head_slot(n) == <<"ConstantPool", n, "segment_list_head_at">>

\* A variant of the hook that pushes nothing
CPSegmentInfo_metaspace_pointers_do_PushesNothing(n) == {}

\* CPSegmentInfo::metaspace_pointers_do: the addresses it pushes
CPSegmentInfo_metaspace_pointers_do(n) == {pool_slot(n)}

\* The hook run on the shape allocate returned
MetaspacePointersDo ==
  /\ vm_error = NoError
  /\ a_pc = "returned"
  /\ a_ret # NULL
  /\ ~closure.ran
  /\ closure' = [closure EXCEPT !.ran = TRUE,
                                 !.slots = CPSegmentInfo_metaspace_pointers_do(a_ret)]
  /\ UNCHANGED <<vm_error, infos, s, saved, a_pc, a_ret, a_pending, create_vars>>

\* allocate run to its end without an allocation failure: the info block it
\* returns, or NULL when an assert stops it
allocated_info(segnum, parameter_index, param_kind, constants) ==
  LET p1 == sizing_pass(Setup_with(segnum, parameter_index, param_kind, constants))
      s1 == copy_offsets_to_sizes(p1.setup)
      p2 == initialize_pass_on(reset_offsets(s1), new_CPSegmentInfo(s1))
  IN  IF p1.error # NoError THEN NULL
      ELSE IF p2.error # NoError \/ ~same_offsets_as(s1, p2.setup) THEN NULL
      ELSE p2.info

\* ------------------------------------------- CPSegmentInfo::create_segment
\* CPSegmentInfo::param_kind and the predicates on it
info_param_kind(info) == info._flags
info_is_class(info) == info_param_kind(info) = JVM_PARAM_Class
info_is_method_only(info) == info_param_kind(info) = JVM_PARAM_MethodOnly
info_is_method_and_class(info) == info_param_kind(info) = JVM_PARAM_MethodAndClass
info_has_class(info) == ~info_is_method_only(info)
info_has_method(info) == ~info_is_class(info)
info_has_both(info) == info_is_method_and_class(info)

\* ConstantPoolSegment::is_class, has_class, param_kind, has_refs of segment sg
seg_is_class(sg) == segs[sg]._cseg = sg
seg_has_method(sg) == segs[sg]._cseg # sg
seg_has_class(sg) == segs[sg]._cseg # NULL
seg_param_kind(sg) ==
  IF seg_is_class(sg) THEN JVM_PARAM_Class
  ELSE IF seg_has_class(sg) THEN JVM_PARAM_MethodAndClass
  ELSE JVM_PARAM_MethodOnly
seg_has_refs(sg) == segs[sg]._refs # NULL
seg_is_specialized(sg) == seg_has_refs(sg)

\* The oops callers bind segments to
Parameters == {11, 12}
\* Each thread makes one call; the array and the segment the call of thread t
\* allocates are named after t
\* A variant of objArray_of that hands out one array for each parameter,
\* as a cache keyed by the binding argument would
objArray_of_ByArgument(t) == 100 + frame[t].parameter
objArray_of(t) == 100 + t
segment_of(t) == t

\* A segment that is not specialized (is_specialized() is false: it has no
\* refs array), of the class shape, as a caller may hold one
UnspecializedSeg == 99
unspecialized_segment ==
  [_info |-> 1, _cseg |-> UnspecializedSeg, _refs |-> NULL, _segment_list_next |-> NULL]

\* first_seg / next_seg: the nodes met from the head of shape n's list, at
\* most k of them
first_seg(n) == head[n]
next_seg(sg) == segs[sg]._segment_list_next
RECURSIVE list_from(_, _)
list_from(sg, k) ==
  IF sg = NULL \/ k = 0 THEN <<>> ELSE <<sg>> \o list_from(next_seg(sg), k - 1)
segment_list(n) == list_from(first_seg(n), NumThreads + 1)
list_nodes(n) == {segment_list(n)[i] : i \in 1 .. Len(segment_list(n))}

IdleFrame ==
  [pc |-> "idle", entry |-> "none", this |-> NULL, parameter |-> NULL,
   cseg |-> NULL, refs_oop |-> NULL, refs |-> NULL, seg |-> NULL,
   pending |-> FALSE, ret |-> NULL,
   \* what this call has done so far: add_handle calls, remove_handle calls,
   \* writes of a list head
   adds |-> 0, removes |-> 0, links |-> 0]

\* A variant of the two entry points without their asserts
entry_error_NoAsserts(entry, info, cseg) == NoError

\* The asserts of new_class_segment and new_method_segment
entry_error(entry, info, cseg) ==
  IF entry = "new_class_segment"
    THEN IF info_is_class(info) THEN NoError
         ELSE "assert(is_class()) failed: must match"
  ELSE IF ~info_has_method(info)
    THEN "assert(has_method()) failed: must match"
  ELSE IF (cseg # NULL) # info_has_both(info)
    THEN "assert((cseg != NULL) == has_both()) failed: must match"
  ELSE NoError

\* The parameters in use, and the ones a new call may pass: one in use, or
\* the first one not in use (oops are opaque, so which fresh oop it is does
\* not matter)
used_parameters == {frame[t].parameter : t \in Threads} \ {NULL}
callable_parameters ==
  used_parameters \cup
    {p \in Parameters \ used_parameters :
       \A q \in Parameters \ used_parameters : p <= q}

\* new_class_segment(parameter) / new_method_segment(parameter, cseg) on the
\* shape n, up to the entry of create_segment. Threads are interchangeable:
\* they make their calls in the order of their numbers.
Call(t, entry, n, parameter, cseg) ==
  /\ vm_error = NoError
  /\ frame[t].pc = "idle"
  /\ \A u \in Threads : u < t => frame[u].pc # "idle"
  /\ parameter \in callable_parameters
  /\ entry = "new_class_segment" => cseg = NULL
  /\ LET err == entry_error(entry, infos[n], cseg)
     IN  /\ vm_error' = err
         /\ IF err = NoError
              THEN /\ frame' = [frame EXCEPT ![t] =
                        [IdleFrame EXCEPT !.pc = "new_objArray", !.entry = entry,
                                          !.this = n, !.parameter = parameter,
                                          !.cseg = cseg]]
              ELSE UNCHANGED frame
  /\ UNCHANGED <<layout_vars, heap, handles, handle_adds, handle_removes, segs,
                 head, lock_owner>>

\* A variant of new_objArray without the obj_at_put of the parameter
new_objArray_NoStore(len, parameter) == [i \in 1 .. len |-> NULL]

\* lines 271-274: oopFactory::new_objArray(Object_klass, _reflen, CHECK_NULL)
\* and the store of the parameter; with ok = FALSE the allocation fails
new_objArray(len, parameter) ==
  [i \in 1 .. len |-> IF i = argument_ref_index + 1 THEN parameter ELSE NULL]

\* A variant of NewObjArray without the CHECK_NULL: a failed allocation
\* goes on to add_handle
NewObjArray_NoCheck(t, ok) ==
  /\ vm_error = NoError
  /\ frame[t].pc = "new_objArray"
  /\ IF ok
       THEN LET a == objArray_of(t)
            IN  /\ heap' = (a :> new_objArray(infos[frame[t].this]._reflen,
                                              frame[t].parameter)) @@ heap
                /\ frame' = [frame EXCEPT ![t].refs_oop = a, ![t].pc = "add_handle"]
       ELSE /\ frame' = [frame EXCEPT ![t].pending = TRUE, ![t].pc = "add_handle"]
            /\ UNCHANGED heap
  /\ UNCHANGED <<vm_error, layout_vars, handles, handle_adds, handle_removes, segs,
                 head, lock_owner>>

NewObjArray(t, ok) ==
  /\ vm_error = NoError
  /\ frame[t].pc = "new_objArray"
  /\ IF ok
       THEN LET a == objArray_of(t)
            IN  /\ heap' = (a :> new_objArray(infos[frame[t].this]._reflen,
                                              frame[t].parameter)) @@ heap
                /\ frame' = [frame EXCEPT ![t].refs_oop = a, ![t].pc = "add_handle"]
       ELSE /\ frame' = [frame EXCEPT ![t].pending = TRUE, ![t].ret = NULL,
                                      ![t].pc = "done"]
            /\ UNCHANGED heap
  /\ UNCHANGED <<vm_error, layout_vars, handles, handle_adds, handle_removes, segs,
                 head, lock_owner>>

\* lines 275-276: refs = loader_data->add_handle(refs_handle)
AddHandle(t) ==
  /\ vm_error = NoError
  /\ frame[t].pc = "add_handle"
  /\ handles' = handles \cup {frame[t].refs_oop}
  /\ handle_adds' = handle_adds + 1
  /\ frame' = [frame EXCEPT ![t].refs = frame[t].refs_oop, ![t].adds = @ + 1,
                             ![t].pc = "new_segment"]
  /\ UNCHANGED <<vm_error, layout_vars, heap, handle_removes, segs, head, lock_owner>>

\* A variant of the constructor without the self-loop of a class segment
\* (and without the asserts that would catch it)
new_ConstantPoolSegment_NoSelfLoop(sg, n, cseg) ==
  [error |-> NoError,
   fields |-> [_info |-> n, _cseg |-> cseg, _refs |-> NULL,
               _segment_list_next |-> NULL]]

\* A variant of the constructor that stores the self-loop of a class
\* segment and otherwise leaves _cseg as the allocator zeroed it (and
\* without the assert that would catch it)
new_ConstantPoolSegment_DropsCseg(sg, n, cseg) ==
  [error |-> IF info_is_class(infos[n]) /\ cseg # NULL
               THEN "assert(cseg == NULL) failed"
               ELSE NoError,
   fields |-> [_info |-> n,
               _cseg |-> IF info_is_class(infos[n]) THEN sg ELSE NULL,
               _refs |-> NULL,
               _segment_list_next |-> NULL]]

\* ConstantPoolSegment::ConstantPoolSegment(info, cseg) on the zero-filled
\* block sg: the fields it leaves, and the assert that fails, if any
new_ConstantPoolSegment(sg, n, cseg) ==
  LET link == IF info_is_class(infos[n]) THEN sg ELSE cseg
      kind == IF link = sg THEN JVM_PARAM_Class
              ELSE IF link # NULL THEN JVM_PARAM_MethodAndClass
              ELSE JVM_PARAM_MethodOnly
  IN  [error |-> IF info_is_class(infos[n]) /\ cseg # NULL
                   THEN "assert(cseg == NULL) failed"
                 ELSE IF kind # info_param_kind(infos[n])
                   THEN "assert(this->param_kind() == info->param_kind()) failed: properly encoded in cseg"
                 ELSE NoError,
       fields |-> [_info |-> n, _cseg |-> link, _refs |-> NULL,
                   _segment_list_next |-> NULL]]

\* A variant of the allocation that asks for the header's words only
segment_block_words_HeaderOnly(n) == ConstantPoolSegment_header_size

\* line 281: the word size create_segment passes to operator new for a
\* segment of shape n
segment_block_words(n) == infos[n]._segment_size_in_words

\* ConstantPoolSegment::size()
seg_size(sg) == infos[segs[sg]._info]._segment_size_in_words

\* lines 280-282: the metaspace allocation of the segment and its constructor.
\* outcome "ok": allocated and constructed; "oom": the allocation fails (no
\* block, an exception pending); "async": the block is allocated and
\* constructed and an asynchronous exception is pending when the allocation
\* returns. block_words is the size of the block the allocator handed out.
NewSegment(t, outcome) ==
  /\ vm_error = NoError
  /\ frame[t].pc = "new_segment"
  /\ IF outcome = "oom"
       THEN /\ frame' = [frame EXCEPT ![t].seg = NULL, ![t].pending = TRUE,
                                      ![t].pc = "after_new"]
            /\ UNCHANGED <<vm_error, segs>>
       ELSE LET sg == segment_of(t)
                c  == new_ConstantPoolSegment(sg, frame[t].this, frame[t].cseg)
            IN  /\ vm_error' = c.error
                /\ IF c.error = NoError
                     THEN /\ segs' =
                               (sg :> (c.fields @@
                                        [block_words |->
                                           segment_block_words(frame[t].this)]))
                               @@ segs
                          /\ frame' = [frame EXCEPT ![t].seg = sg,
                                         ![t].pending = (outcome = "async"),
                                         ![t].pc = "after_new"]
                     ELSE UNCHANGED <<segs, frame>>
  /\ UNCHANGED <<layout_vars, heap, handles, handle_adds, handle_removes, head,
                 lock_owner>>

\* A variant of the test after the allocation that looks at the block
\* instead of the pending exception
seg_is_null(t) == frame[t].seg = NULL

\* line 283: HAS_PENDING_EXCEPTION
has_pending_exception(t) == frame[t].pending

\* A variant of RemoveHandle that returns NULL without remove_handle
RemoveHandle_Leaks(t) ==
  /\ vm_error = NoError
  /\ frame[t].pc = "after_new"
  /\ has_pending_exception(t)
  /\ frame' = [frame EXCEPT ![t].ret = NULL, ![t].pc = "done"]
  /\ UNCHANGED <<vm_error, layout_vars, heap, handles, handle_adds, handle_removes,
                 segs, head, lock_owner>>

\* lines 283-286: loader_data->remove_handle(refs); return NULL
RemoveHandle(t) ==
  /\ vm_error = NoError
  /\ frame[t].pc = "after_new"
  /\ has_pending_exception(t)
  /\ handles' = handles \ {frame[t].refs}
  /\ handle_removes' = handle_removes + 1
  /\ frame' = [frame EXCEPT ![t].removes = @ + 1, ![t].ret = NULL, ![t].pc = "done"]
  /\ UNCHANGED <<vm_error, layout_vars, heap, handle_adds, segs, head, lock_owner>>

\* A variant of SetRefs that leaves seg->_refs as allocated
SetRefs_NoStore(t) ==
  /\ vm_error = NoError
  /\ frame[t].pc = "after_new"
  /\ ~frame[t].pending
  /\ frame' = [frame EXCEPT ![t].pc = "lock"]
  /\ UNCHANGED <<vm_error, layout_vars, heap, handles, handle_adds, handle_removes,
                 segs, head, lock_owner>>

\* lines 287-288: seg->_refs = refs; assert(seg->size() == _segment_size_in_words)
SetRefs(t) ==
  /\ vm_error = NoError
  /\ frame[t].pc = "after_new"
  /\ ~has_pending_exception(t)
  /\ segs' = [segs EXCEPT ![frame[t].seg]._refs = frame[t].refs]
  /\ IF seg_size(frame[t].seg) = infos[frame[t].this]._segment_size_in_words
       THEN /\ frame' = [frame EXCEPT ![t].pc = "lock"]
            /\ UNCHANGED vm_error
       ELSE /\ vm_error' = "assert(seg->size() == (size_t)_segment_size_in_words) failed"
            /\ UNCHANGED frame
  /\ UNCHANGED <<layout_vars, heap, handles, handle_adds, handle_removes,
                 head, lock_owner>>

\* A variant of Lock that does not exclude other threads
Lock_NoExclusion(t) ==
  /\ vm_error = NoError
  /\ frame[t].pc = "lock"
  /\ lock_owner' = t
  /\ frame' = [frame EXCEPT ![t].pc = "link_next"]
  /\ UNCHANGED <<vm_error, layout_vars, heap, handles, handle_adds, handle_removes,
                 segs, head>>

\* A variant of Lock whose ObjectLocker is entered before the metaspace
\* allocation and spans it
Lock_SpansAllocation(t) ==
  /\ vm_error = NoError
  /\ \/ /\ frame[t].pc = "new_segment"
        /\ lock_owner = NULL
        /\ lock_owner' = t
        /\ UNCHANGED frame
     \/ /\ frame[t].pc = "lock"
        /\ lock_owner = t
        /\ frame' = [frame EXCEPT ![t].pc = "link_next"]
        /\ UNCHANGED lock_owner
  /\ UNCHANGED <<vm_error, layout_vars, heap, handles, handle_adds, handle_removes,
                 segs, head>>

\* lines 290-294: ObjectLocker ol(cplock, THREAD) on the pool's
\* resolved_references(): entered only when no other thread is in it
Lock(t) ==
  /\ vm_error = NoError
  /\ frame[t].pc = "lock"
  /\ lock_owner = NULL
  /\ lock_owner' = t
  /\ frame' = [frame EXCEPT ![t].pc = "link_next"]
  /\ UNCHANGED <<vm_error, layout_vars, heap, handles, handle_adds, handle_removes,
                 segs, head>>

\* A variant of LinkNext that leaves the next link as allocated
LinkNext_NoStore(t) ==
  /\ vm_error = NoError
  /\ frame[t].pc = "link_next"
  /\ frame' = [frame EXCEPT ![t].pc = "link_head"]
  /\ UNCHANGED <<vm_error, layout_vars, heap, handles, handle_adds, handle_removes,
                 segs, head, lock_owner>>

\* lines 296-297: seg->_segment_list_next = head
LinkNext(t) ==
  /\ vm_error = NoError
  /\ frame[t].pc = "link_next"
  /\ segs' = [segs EXCEPT ![frame[t].seg]._segment_list_next = head[frame[t].this]]
  /\ frame' = [frame EXCEPT ![t].pc = "link_head"]
  /\ UNCHANGED <<vm_error, layout_vars, heap, handles, handle_adds, handle_removes,
                 head, lock_owner>>

\* A variant of LinkHead that puts the segment behind the head of a list
\* that is not empty
LinkHead_AfterHead(t) ==
  /\ vm_error = NoError
  /\ frame[t].pc = "link_head"
  /\ IF head[frame[t].this] = NULL
       THEN /\ head' = [head EXCEPT ![frame[t].this] = frame[t].seg]
            /\ UNCHANGED segs
       ELSE /\ segs' = [segs EXCEPT
                          ![frame[t].seg]._segment_list_next =
                             segs[head[frame[t].this]]._segment_list_next,
                          ![head[frame[t].this]]._segment_list_next = frame[t].seg]
            /\ UNCHANGED head
  /\ frame' = [frame EXCEPT ![t].links = @ + 1, ![t].pc = "unlock"]
  /\ UNCHANGED <<vm_error, layout_vars, heap, handles, handle_adds, handle_removes,
                 lock_owner>>

\* A variant of LinkHead with one list for the pool, as it has one lock
LinkHead_SharedHead(t) ==
  /\ vm_error = NoError
  /\ frame[t].pc = "link_head"
  /\ head' = [head EXCEPT ![1] = frame[t].seg]
  /\ frame' = [frame EXCEPT ![t].links = @ + 1, ![t].pc = "unlock"]
  /\ UNCHANGED <<vm_error, layout_vars, heap, handles, handle_adds, handle_removes,
                 segs, lock_owner>>

\* A variant of LinkHead that also keeps a count of the shape's segments
\* in the shape
LinkHead_CountsInShape(t) ==
  /\ vm_error = NoError
  /\ frame[t].pc = "link_head"
  /\ head' = [head EXCEPT ![frame[t].this] = frame[t].seg]
  /\ infos' = [infos EXCEPT ![frame[t].this]._constant_count = @ + 1]
  /\ frame' = [frame EXCEPT ![t].links = @ + 1, ![t].pc = "unlock"]
  /\ UNCHANGED <<vm_error, s, saved, a_pc, a_ret, a_pending, closure, heap, handles,
                 handle_adds, handle_removes, segs, lock_owner>>

\* line 298: head = seg
LinkHead(t) ==
  /\ vm_error = NoError
  /\ frame[t].pc = "link_head"
  /\ head' = [head EXCEPT ![frame[t].this] = frame[t].seg]
  /\ frame' = [frame EXCEPT ![t].links = @ + 1, ![t].pc = "unlock"]
  /\ UNCHANGED <<vm_error, layout_vars, heap, handles, handle_adds, handle_removes,
                 segs, lock_owner>>

\* A variant of Unlock in which the end of the scope does not release the
\* lock
Unlock_KeepsLock(t) ==
  /\ vm_error = NoError
  /\ frame[t].pc = "unlock"
  /\ frame' = [frame EXCEPT ![t].pc = "return"]
  /\ UNCHANGED <<vm_error, layout_vars, heap, handles, handle_adds, handle_removes,
                 segs, head, lock_owner>>

\* line 299: the ObjectLocker's scope ends
Unlock(t) ==
  /\ vm_error = NoError
  /\ frame[t].pc = "unlock"
  /\ lock_owner' = NULL
  /\ frame' = [frame EXCEPT ![t].pc = "return"]
  /\ UNCHANGED <<vm_error, layout_vars, heap, handles, handle_adds, handle_removes,
                 segs, head>>

\* line 301: return seg
Return(t) ==
  /\ vm_error = NoError
  /\ frame[t].pc = "return"
  /\ frame' = [frame EXCEPT ![t].ret = frame[t].seg, ![t].pc = "done"]
  /\ UNCHANGED <<vm_error, layout_vars, heap, handles, handle_adds, handle_removes,
                 segs, head, lock_owner>>

\* ------------------------------- ConstantPoolSegment::metaspace_pointers_do
\* The address of a field of segment sg
seg_slot(sg, field) == <<"ConstantPoolSegment", sg, field>>
\* The fields of a ConstantPoolSegment (hpp:164-167)
SegmentFields == {"_info", "_cseg", "_refs", "_segment_list_next"}

\* A variant of the hook that pushes the refs handle as well
ConstantPoolSegment_metaspace_pointers_do_WithRefs(sg) ==
  {seg_slot(sg, f) : f \in SegmentFields}

\* ConstantPoolSegment::metaspace_pointers_do: the addresses it pushes
ConstantPoolSegment_metaspace_pointers_do(sg) ==
  {seg_slot(sg, "_info"), seg_slot(sg, "_segment_list_next"), seg_slot(sg, "_cseg")}

\* The hook run on segment sg with a closure that relocates: through every
\* address pushed to it for a field f it writes w[f], where the object the
\* field pointed to has moved to
SegmentPointersDo(sg, w) ==
  /\ vm_error = NoError
  /\ sg \in DOMAIN segs
  /\ ~closure.ran
  /\ LET pushed == ConstantPoolSegment_metaspace_pointers_do(sg)
     IN  /\ closure' = [ran |-> TRUE,
                        slots |-> pushed,
                        wrote |-> [sl \in pushed |-> w[sl[3]]]]
         /\ segs' = [segs EXCEPT ![sg] =
                       [f \in DOMAIN segs[sg] |->
                          IF seg_slot(sg, f) \in pushed THEN w[f] ELSE segs[sg][f]]]
  /\ UNCHANGED <<vm_error, infos, s, saved, a_pc, a_ret, a_pending, frame, heap,
                 handles, handle_adds, handle_removes, head, lock_owner>>

\* ----------------------------------------------------------- specifications
\* The three shapes of the pool: a class shape, a method-only shape and a
\* combined shape, each as allocate returns it
ShapeOf(n) ==
  CASE n = 1 -> allocated_info(1, 4, JVM_PARAM_Class, <<2, 4>>)
    [] n = 2 -> allocated_info(2, 5, JVM_PARAM_MethodOnly, <<5>>)
    [] n = 3 -> allocated_info(3, 6, JVM_PARAM_MethodAndClass, <<9, 6, 3>>)

\* The segments a caller can name as the enclosing class segment: those it
\* can reach on a list, and the unspecialized one
KnownSegments == UNION {list_nodes(n) : n \in Segnums} \cup {UnspecializedSeg}

Init ==
  /\ vm_error = NoError
  /\ infos = [n \in Segnums |-> ShapeOf(n)]
  /\ s = NULL
  /\ saved = NULL
  /\ a_pc = "none"
  /\ a_ret = NULL
  /\ a_pending = FALSE
  /\ closure = EmptyClosure
  /\ frame = [t \in Threads |-> IdleFrame]
  /\ heap = <<>>
  /\ handles = {}
  /\ handle_adds = 0
  /\ handle_removes = 0
  /\ segs = (UnspecializedSeg :> unspecialized_segment)
  /\ head = [n \in Segnums |-> NULL]
  /\ lock_owner = NULL

Next ==
  \/ \E t \in Threads, n \in Segnums, p \in Parameters :
       \/ Call(t, "new_class_segment", n, p, NULL)
       \/ \E c \in KnownSegments \cup {NULL} : Call(t, "new_method_segment", n, p, c)
  \/ \E t \in Threads, ok \in BOOLEAN : NewObjArray(t, ok)
  \/ \E t \in Threads : AddHandle(t)
  \/ \E t \in Threads, o \in {"ok", "oom", "async"} : NewSegment(t, o)
  \/ \E t \in Threads : RemoveHandle(t)
  \/ \E t \in Threads : SetRefs(t)
  \/ \E t \in Threads : Lock(t)
  \/ \E t \in Threads : LinkNext(t)
  \/ \E t \in Threads : LinkHead(t)
  \/ \E t \in Threads : Unlock(t)
  \/ \E t \in Threads : Return(t)

Spec == Init /\ [][Next]_vars

\* The steps of thread t inside create_segment
Step(t) ==
  \/ \E ok \in BOOLEAN : NewObjArray(t, ok)
  \/ AddHandle(t)
  \/ \E o \in {"ok", "oom", "async"} : NewSegment(t, o)
  \/ RemoveHandle(t)
  \/ SetRefs(t)
  \/ Lock(t)
  \/ LinkNext(t)
  \/ LinkHead(t)
  \/ Unlock(t)
  \/ Return(t)

\* Spec with every thread scheduled fairly: a thread that stays able to
\* take its next step takes it
SpecFair == Spec /\ \A t \in Threads : WF_vars(Step(t))

\* The constant lists allocate is given: up to MaxConstants distinct indexes
\* of the pool, in any order
RECURSIVE ConstantLists(_)
ConstantLists(k) ==
  IF k = 0 THEN {<<>>}
  ELSE ConstantLists(k - 1) \cup
       {Append(l, i) : l \in {m \in ConstantLists(k - 1) : Len(m) = k - 1},
                       i \in CpIndexes}
DistinctLists(k) ==
  {l \in ConstantLists(k) : \A i, j \in 1 .. Len(l) : i # j => l[i] # l[j]}
ParameterIndexes == {i \in CpIndexes : tag_at(i) = JVM_CONSTANT_Parameter}
\* The four-constant lists over a Parameter (5), a Linkage (2), a Dynamic (9)
\* and a MethodHandle (3), in every order the caller may supply them
ScenarioLists ==
  {l \in DistinctLists(4) : {l[i] : i \in 1 .. Len(l)} = {5, 2, 9, 3}}
\* The lists of two or three constants over a Parameter (5), a Linkage (2)
\* and a MethodHandle (3) in which the caller names a constant more than once
RepeatedLists ==
  {l \in [1 .. 2 -> {5, 2, 3}] \cup [1 .. 3 -> {5, 2, 3}] :
     \E i, j \in 1 .. Len(l) : i # j /\ l[i] = l[j]}

InitLayout ==
  /\ vm_error = NoError
  /\ infos = [n \in Segnums |-> NULL]
  /\ \E pi \in ParameterIndexes, k \in ParamKinds,
        cs \in DistinctLists(MaxConstants) \cup ScenarioLists \cup RepeatedLists :
       s = Setup_with(1, pi, k, cs)
  /\ saved = NULL
  /\ a_pc = "pass1"
  /\ a_ret = NULL
  /\ a_pending = FALSE
  /\ closure = EmptyClosure
  /\ frame = [t \in Threads |-> IdleFrame]
  /\ heap = <<>>
  /\ handles = {}
  /\ handle_adds = 0
  /\ handle_removes = 0
  /\ segs = <<>>
  /\ head = [n \in Segnums |-> NULL]
  /\ lock_owner = NULL

NextLayout ==
  \/ Pass1
  \/ CopyOffsetsToSizes
  \/ \E ok \in BOOLEAN : NewInfo(ok)
  \/ SaveAndReset
  \/ Pass2
  \/ AssertAndReturn
  \/ MetaspacePointersDo

SpecLayout == InitLayout /\ [][NextLayout]_vars

\* One segment in any state of its four fields, the hook run on it once
\* with a closure that moves what the pushed fields point to
HookedSegment == segment_of(1)
SegmentStates ==
  [_info : Segnums,
   _cseg : {NULL, HookedSegment, segment_of(2)},
   _refs : {NULL, objArray_of(1), objArray_of(2)},
   _segment_list_next : {NULL, segment_of(2)}]
\* The addresses objects are moved to
MovedTo == {segment_of(1) + 50, segment_of(2) + 50, UnspecializedSeg + 50}

InitHook ==
  /\ vm_error = NoError
  /\ infos = [n \in Segnums |-> ShapeOf(n)]
  /\ s = NULL
  /\ saved = NULL
  /\ a_pc = "none"
  /\ a_ret = NULL
  /\ a_pending = FALSE
  /\ closure = EmptyClosure
  /\ frame = [t \in Threads |-> IdleFrame]
  /\ heap = <<>>
  /\ handles = {}
  /\ handle_adds = 0
  /\ handle_removes = 0
  /\ \E sg \in SegmentStates : segs = (HookedSegment :> sg)
  /\ head = [n \in Segnums |-> NULL]
  /\ lock_owner = NULL

NextHook == \E w \in [SegmentFields -> MovedTo] : SegmentPointersDo(HookedSegment, w)

SpecHook == InitHook /\ [][NextHook]_vars

\* ------------------------------------------------------------------ claims
AllDone == \A t \in Threads : frame[t].pc = "done"
Succeeded(t) == frame[t].pc = "done" /\ frame[t].ret # NULL
\* The call of t failed in the heap allocation of the refs array
HeapFailed(t) == frame[t].pending /\ frame[t].refs_oop = NULL
\* The call of t failed in the metaspace allocation of the segment, after
\* it had acquired the handle of its refs array
MetaFailed(t) == frame[t].pending /\ frame[t].adds = 1
InCriticalSection(t) == frame[t].pc \in {"link_next", "link_head", "unlock"}
Stepped(t) == frame'[t] # frame[t]

\* C1: once every thread has made its one call, the list of each shape,
\* walked with first_seg / next_seg, holds exactly the instances the
\* successful calls on that shape returned: as many nodes as such calls, no
\* node twice, every node active. With all N calls on one shape and all
\* successful these are exactly N distinct active nodes.
C1_ConcurrentCreatesAllListed ==
  AllDone =>
    \A n \in Segnums :
      LET made == {t \in Threads : frame[t].this = n /\ Succeeded(t)}
      IN  /\ Len(segment_list(n)) = Cardinality(made)
          /\ Cardinality(list_nodes(n)) = Cardinality(made)
          /\ list_nodes(n) = {frame[t].ret : t \in made}
          /\ \A sg \in list_nodes(n) : seg_has_refs(sg)

C1_Witness ==
  /\ AllDone
  /\ \A t \in Threads : frame[t].this = 1 /\ Succeeded(t)
  /\ Len(segment_list(1)) = NumThreads

\* C2: a call whose metaspace allocation fails (no block, or an asynchronous
\* exception pending) after it acquired the handle goes nowhere but to its
\* return: it releases that handle exactly once, writes no list head, its
\* block (if any) is on no list, it returns NULL and leaves the exception
\* pending.
C2_MetaFailureRollsBack ==
  \A t \in Threads :
    MetaFailed(t) =>
      /\ frame[t].pc \in {"after_new", "done"}
      /\ frame[t].links = 0
      /\ \A n \in Segnums : segment_of(t) \notin list_nodes(n)
      /\ frame[t].pc = "after_new" => frame[t].removes = 0 /\ frame[t].refs \in handles
      /\ frame[t].pc = "done" =>
           /\ frame[t].removes = 1
           /\ frame[t].refs \notin handles
           /\ frame[t].ret = NULL

C2_Witness ==
  \E t, u \in Threads :
    /\ t # u
    /\ MetaFailed(t) /\ frame[t].pc = "done" /\ frame[t].seg # NULL
    /\ MetaFailed(u) /\ frame[u].pc = "done" /\ frame[u].seg = NULL

\* C3: a call whose heap allocation fails returns at once with the exception
\* pending and nothing committed: it acquired and released no handle, no
\* array and no metadata block of its exists, it wrote no list head; and
\* while no other call got further, the handle counts are equal and every
\* list is as it was.
C3_HeapFailureCommitsNothing ==
  /\ \A t \in Threads :
       HeapFailed(t) =>
         /\ frame[t].pc = "done"
         /\ frame[t].ret = NULL
         /\ frame[t].adds = 0 /\ frame[t].removes = 0 /\ frame[t].refs = NULL
         /\ objArray_of(t) \notin DOMAIN heap
         /\ frame[t].seg = NULL /\ segment_of(t) \notin DOMAIN segs
         /\ frame[t].links = 0
         /\ \A n \in Segnums : segment_of(t) \notin list_nodes(n)
  /\ (\A t \in Threads : frame[t].pc = "idle" \/ HeapFailed(t)) =>
       /\ handle_adds = handle_removes
       /\ handles = {}
       /\ \A n \in Segnums : head[n] = NULL

C3_Witness ==
  \E t, u \in Threads :
    /\ HeapFailed(t) /\ frame[t].pc = "done"
    /\ Succeeded(u) /\ frame[u].this = frame[t].this
    /\ Len(segment_list(frame[t].this)) = 1

\* C4: the instance a successful call returned is active (its _refs is
\* set) and is met walking its shape's list from the head, from the return on.
C4_ReturnedIsActiveAndListed ==
  \A t \in Threads :
    Succeeded(t) =>
      /\ frame[t].ret = segment_of(t)
      /\ seg_has_refs(frame[t].ret)
      /\ frame[t].ret \in list_nodes(frame[t].this)

C4_Witness ==
  \E t \in Threads :
    /\ Succeeded(t)
    /\ head[frame[t].this] # frame[t].ret
    /\ frame[t].ret \in list_nodes(frame[t].this)

\* C5: the class link (_cseg) of every instance a call constructed is the
\* instance itself for a class shape, NULL for a method-only shape and the
\* caller's cseg for a combined shape.
C5_ClassLinkByKind ==
  \A t \in Threads :
    frame[t].seg # NULL =>
      LET sg == frame[t].seg
          info == infos[frame[t].this]
      IN  /\ segs[sg]._info = frame[t].this
          /\ info_is_class(info) => segs[sg]._cseg = sg
          /\ info_is_method_only(info) => segs[sg]._cseg = NULL
          /\ info_is_method_and_class(info) =>
               segs[sg]._cseg = frame[t].cseg /\ frame[t].cseg # NULL

C5_Witness ==
  \E t, u \in Threads :
    /\ Succeeded(t) /\ info_is_class(infos[frame[t].this])
    /\ Succeeded(u) /\ info_is_method_and_class(infos[frame[u].this])
    /\ frame[u].cseg = frame[t].ret
    /\ segs[frame[u].ret]._cseg = frame[t].ret
    /\ segs[frame[t].ret]._cseg = frame[t].ret

\* C6: no call proceeds with an enclosing instance that is not active, and
\* no registered instance is linked to one.
C6_InactiveEnclosingRejected ==
  /\ \A t \in Threads :
       (frame[t].pc # "idle" /\ frame[t].cseg # NULL) => seg_has_refs(frame[t].cseg)
  /\ \A n \in Segnums : \A sg \in list_nodes(n) :
       (segs[sg]._cseg # NULL /\ segs[sg]._cseg # sg) => seg_has_refs(segs[sg]._cseg)

\* C7: a list head changes only in a step of the thread that holds the
\* pool's lock, and at most one thread is between its Lock and its Unlock.
C7_HeadWrittenUnderLock ==
  /\ [](/\ Cardinality({t \in Threads : InCriticalSection(t)}) <= 1
        /\ \A t \in Threads : InCriticalSection(t) => lock_owner = t)
  /\ [][\A n \in Segnums :
          head'[n] # head[n] =>
            \E t \in Threads :
              /\ lock_owner = t
              /\ Stepped(t)
              /\ frame[t].this = n
              /\ \A u \in Threads \ {t} : ~Stepped(u)]_vars

C7_Witness ==
  \E t, u \in Threads :
    /\ t # u
    /\ frame[t].pc = "link_head" /\ lock_owner = t
    /\ frame[u].pc = "lock"
    /\ frame[u].this # frame[t].this

\* C8: a thread that holds the lock has both its allocations behind it and
\* its steps under the lock allocate nothing, acquire and release no handle,
\* and write only its segment's next link and its shape's list head.
C8_NoAllocationUnderLock ==
  /\ [](\A t \in Threads :
          lock_owner = t =>
            /\ InCriticalSection(t)
            /\ frame[t].refs \in DOMAIN heap /\ frame[t].refs \in handles
            /\ frame[t].seg \in DOMAIN segs /\ segs[frame[t].seg]._refs = frame[t].refs)
  /\ [][\A t \in Threads :
          (lock_owner = t /\ Stepped(t)) =>
            /\ heap' = heap
            /\ handles' = handles
            /\ handle_adds' = handle_adds /\ handle_removes' = handle_removes
            /\ DOMAIN segs' = DOMAIN segs
            /\ \A sg \in DOMAIN segs :
                 /\ segs'[sg]._info = segs[sg]._info
                 /\ segs'[sg]._cseg = segs[sg]._cseg
                 /\ segs'[sg]._refs = segs[sg]._refs
                 /\ sg # frame[t].seg =>
                      segs'[sg]._segment_list_next = segs[sg]._segment_list_next
            /\ \A n \in Segnums \ {frame[t].this} : head'[n] = head[n]]_vars

C8_Witness ==
  \E t, u \in Threads :
    /\ lock_owner = t /\ frame[t].pc = "link_next"
    /\ frame[u].pc = "new_segment"

\* allocate has returned a shape
Returned == a_pc = "returned" /\ a_ret # NULL
\* CPSegmentInfo::constant_info_at(subidx) of the info block for segnum n
constant_info_at(n, subidx) == infos[n].cinfo[subidx + 1]

\* C9: in every shape allocate returns, the CInfo at _parameter_subindex
\* has the Parameter tag and the index parameter_index, and its
\* _offset_in_refs is _argument_ref_index, the binding's fixed slot.
C9_ParameterDescriptorFirst ==
  Returned =>
    LET ci == constant_info_at(a_ret, parameter_subindex)
    IN  /\ CInfo_tag(ci._index_and_tag) = JVM_CONSTANT_Parameter
        /\ CInfo_index(ci._index_and_tag) = s._parameter_index
        /\ ci._offset_in_refs = argument_ref_index

C9_Witness ==
  /\ Returned
  /\ Len(s._constants) = MaxConstants
  /\ s._constants[MaxConstants] = s._parameter_index
  /\ constant_info_at(a_ret, 1)._offset_in_refs = fixed_ref_limit

\* C10: once pass 2 has run, the three offsets it accumulated are the ones
\* pass 1 accumulated (kept in saved) and froze as the sizes of the shape,
\* and the assert that the passes agree never fails.
C10_PassesAgree ==
  /\ vm_error # "assert(saved.same_offsets_as(s)) failed: the passes have to agree"
  /\ a_pc \in {"check", "returned"} /\ s._info # NULL =>
       /\ s._info_offset_in_bytes = saved._info_offset_in_bytes
       /\ s._segment_offset_in_bytes = saved._segment_offset_in_bytes
       /\ s._refs_offset = saved._refs_offset
       /\ s._info_offset_in_bytes = s._info_size_in_bytes
       /\ s._segment_offset_in_bytes = s._segment_size_in_bytes
       /\ s._refs_offset = s._refs_length
       /\ infos[s._info]._reflen = s._refs_offset
       /\ infos[s._info]._segment_size_in_words * wordSize = s._segment_offset_in_bytes
       /\ infos[s._info]._info_size_in_words * wordSize
            = align_up(s._info_offset_in_bytes, wordSize)

C10_Witness ==
  /\ Returned
  /\ Len(s._constants) = MaxConstants
  /\ saved._refs_offset = fixed_ref_limit + MaxConstants - 1
  /\ s._refs_offset = saved._refs_offset
  /\ s._segment_offset_in_bytes =
       (ConstantPoolSegment_header_size + MaxConstants - 1) * wordSize

\* The descriptors of the shape allocate returned, in array order
descriptors == infos[a_ret].cinfo
\* The place of a packed value's tag in the order of the layout: Parameter,
\* then Linkage, then every other tag
tag_class(it) ==
  IF CInfo_tag(it) = JVM_CONSTANT_Parameter THEN 0
  ELSE IF CInfo_tag(it) = JVM_CONSTANT_Linkage THEN 1
  ELSE 2
\* a is laid out before b
laid_out_before(a, b) ==
  \/ tag_class(a) < tag_class(b)
  \/ /\ tag_class(a) = tag_class(b)
     /\ \/ CInfo_tag(a) < CInfo_tag(b)
        \/ CInfo_tag(a) = CInfo_tag(b) /\ CInfo_index(a) < CInfo_index(b)

\* C11: in every shape allocate returns, the descriptor array starts with
\* the Parameter descriptor, then holds the Linkage descriptors, then the
\* other descriptors by ascending tag value, equal tags by ascending index
\* (a constant the caller named twice has two descriptors, side by side).
\* For a Parameter at 5, a Linkage at 2, a Dynamic at 9 and a MethodHandle
\* at 3, supplied in any order, the array is parameter(5), linkage(2),
\* method-handle(3), dynamic(9); the last three have the reference slots
\* 3, 4, 5 and the metadata offsets of the header, the header plus one word
\* and the header plus two words.
C11_DescriptorOrder ==
  Returned =>
    /\ CInfo_tag(descriptors[1]._index_and_tag) = JVM_CONSTANT_Parameter
    /\ \A i, j \in 1 .. Len(descriptors) :
         i < j => \/ laid_out_before(descriptors[i]._index_and_tag,
                                     descriptors[j]._index_and_tag)
                  \/ descriptors[i]._index_and_tag = descriptors[j]._index_and_tag
    /\ s._constants \in ScenarioLists =>
         LET header == ConstantPoolSegment_header_size * wordSize
         IN  /\ [i \in 1 .. 4 |-> descriptors[i]._index_and_tag] =
                  << index_and_tag(5, JVM_CONSTANT_Parameter),
                     index_and_tag(2, JVM_CONSTANT_Linkage),
                     index_and_tag(3, JVM_CONSTANT_MethodHandle),
                     index_and_tag(9, JVM_CONSTANT_Dynamic) >>
             /\ [i \in 2 .. 4 |-> descriptors[i]._offset_in_refs] =
                  [i \in 2 .. 4 |-> fixed_ref_limit + (i - 2)]
             /\ [i \in 2 .. 4 |-> descriptors[i]._offset_in_meta] =
                  [i \in 2 .. 4 |-> header + (i - 2) * wordSize]

C11_Witness ==
  /\ Returned
  /\ s._constants = <<3, 9, 2, 5>>
  /\ Len(descriptors) = 4
  /\ CInfo_index(descriptors[1]._index_and_tag) = 5
  /\ CInfo_index(descriptors[4]._index_and_tag) = 9

\* C12: a class shape allocate returns for a constant list that holds the
\* parameter constant and nothing else has _reflen equal to
\* _fixed_ref_limit and a segment size of ConstantPoolSegment::header_size()
\* words, no word more.
C12_ParameterOnlyClassShape ==
  (Returned /\ s._param_kind = JVM_PARAM_Class
            /\ s._constants = <<s._parameter_index>>) =>
    /\ infos[a_ret]._flags = JVM_PARAM_Class
    /\ infos[a_ret]._constant_count = 1
    /\ infos[a_ret]._reflen = fixed_ref_limit
    /\ infos[a_ret]._segment_size_in_words = ConstantPoolSegment_header_size
    /\ s._segment_size_in_bytes = sizeof_ConstantPoolSegment

C12_Witness ==
  /\ Returned
  /\ s._param_kind = JVM_PARAM_Class
  /\ s._constants = <<s._parameter_index>>
  /\ infos[a_ret]._reflen = fixed_ref_limit

\* C13: allocate returns no partial shape. When the allocation of the info
\* block fails, allocate returns NULL with the exception pending, no info
\* block exists and the initialize pass has not run; when allocate returns
\* a shape, no exception is pending, the sizes of the Setup block are
\* frozen and recorded in the shape, and the initialize pass has written
\* every descriptor.
C13_NoPartialShape ==
  /\ a_pending =>
       /\ a_pc = "returned" /\ a_ret = NULL
       /\ \A n \in Segnums : infos[n] = NULL
       /\ s._info = NULL /\ saved = NULL
  /\ a_pc = "returned" => (a_ret = NULL <=> a_pending)
  /\ Returned =>
       /\ a_ret = s._info /\ ~a_pending
       /\ s._info_size_in_bytes = saved._info_offset_in_bytes
       /\ s._segment_size_in_bytes = saved._segment_offset_in_bytes
       /\ s._refs_length = saved._refs_offset
       /\ infos[a_ret]._reflen = s._refs_length
       /\ infos[a_ret]._segment_size_in_words * wordSize = s._segment_size_in_bytes
       /\ infos[a_ret]._info_size_in_words
            = byte_size_to_word_size(s._info_size_in_bytes)
       /\ infos[a_ret]._constant_count = Len(s._constants)
       /\ Len(descriptors) = Len(s._constants)
       /\ \A i \in 1 .. Len(descriptors) :
            /\ descriptors[i]._index_and_tag = s._indexes_and_tags[i]
            /\ descriptors[i]._offset_in_meta >= sizeof_ConstantPoolSegment

C13_Witness ==
  /\ a_pc = "returned"
  /\ a_pending
  /\ a_ret = NULL
  /\ s._refs_length = fixed_ref_limit + MaxConstants - 1

\* The constant list given to allocate holds a constant whose tag is none of
\* Parameter, Linkage, InvokeDynamic, Dynamic, MethodHandle
HasUnsupportedTag ==
  \E i \in 1 .. Len(s._constants) :
    tag_at(s._constants[i]) \notin
      {JVM_CONSTANT_Parameter, JVM_CONSTANT_Linkage, JVM_CONSTANT_InvokeDynamic,
       JVM_CONSTANT_Dynamic, JVM_CONSTANT_MethodHandle}
\* The list holds one Parameter constant, the one at parameter_index
OneParameter ==
  \A i \in 1 .. Len(s._constants) :
    tag_at(s._constants[i]) = JVM_CONSTANT_Parameter
      <=> s._constants[i] = s._parameter_index

\* C14: for a constant list with an unsupported tag the sizing pass stops
\* the VM with a fatal error: allocate goes no further than pass 1, the
\* sizes are not copied, no info block is allocated and nothing is returned.
\* When the list is well-formed otherwise the error is ShouldNotReachHere.
C14_UnsupportedTagIsFatal ==
  (HasUnsupportedTag /\ a_pc # "pass1") =>
    /\ a_pc = "aborted"
    /\ vm_error # NoError
    /\ (OneParameter /\ s._parameter_index = CInfo_index(s._indexes_and_tags[1]))
         => vm_error = "ShouldNotReachHere"
    /\ a_ret = NULL /\ ~a_pending
    /\ s._info = NULL
    /\ s._info_size_in_bytes = -1 /\ s._segment_size_in_bytes = -1
    /\ s._refs_length = -1
    /\ \A n \in Segnums : infos[n] = NULL

C14_Witness ==
  /\ a_pc = "aborted"
  /\ vm_error = "ShouldNotReachHere"
  /\ Len(s._constants) = MaxConstants
  /\ tag_at(s._constants[1]) = JVM_CONSTANT_Class
  /\ \A n \in Segnums : infos[n] = NULL

\* C19: the _reflen of every shape allocate returns, of whatever kind and
\* for whatever constant list, is at least _fixed_ref_limit, and the
\* constructor's assert of it never fails.
C19_RefLengthAtLeastFixedLimit ==
  /\ vm_error # "assert(_reflen >= _fixed_ref_limit) failed"
  /\ \A n \in Segnums :
       (a_pc \in {"save", "pass2", "check", "returned"} /\ s._info = n) =>
         /\ infos[n]._reflen >= fixed_ref_limit
         /\ infos[n]._reflen >= cseg_refs_ref_index + 1

C19_Witness ==
  /\ Returned
  /\ infos[a_ret]._flags = JVM_PARAM_MethodAndClass
  /\ infos[a_ret]._reflen = fixed_ref_limit

\* The call of t is one its entry point accepts: new_class_segment on a
\* class shape; new_method_segment on a method-only shape without a cseg or
\* on a combined shape with one
KindMatches(t) ==
  LET kind == infos[frame[t].this]._flags
  IN  IF frame[t].entry = "new_class_segment"
        THEN kind = JVM_PARAM_Class /\ frame[t].cseg = NULL
        ELSE \/ kind = JVM_PARAM_MethodOnly /\ frame[t].cseg = NULL
             \/ kind = JVM_PARAM_MethodAndClass /\ frame[t].cseg # NULL
MustMatchErrors ==
  {"assert(is_class()) failed: must match",
   "assert(has_method()) failed: must match",
   "assert((cseg != NULL) == has_both()) failed: must match"}

\* C15: no call with a kind mismatch (new_class_segment on a shape that is
\* not a class shape, new_method_segment on a class shape, with a cseg on a
\* method-only shape, without one on a combined shape) gets into
\* create_segment, and the step in which an entry point's assert fails
\* allocates no array, acquires no handle, constructs no segment and
\* writes no list.
C15_KindMismatchRejected ==
  /\ [](\A t \in Threads : frame[t].pc # "idle" => KindMatches(t))
  /\ [][vm_error' # vm_error =>
          /\ vm_error' \in MustMatchErrors
          /\ frame' = frame
          /\ heap' = heap
          /\ handles' = handles /\ handle_adds' = handle_adds
          /\ handle_removes' = handle_removes
          /\ segs' = segs
          /\ head' = head /\ lock_owner' = lock_owner]_vars

C15_Witness ==
  /\ vm_error = "assert((cseg != NULL) == has_both()) failed: must match"
  /\ \E t, u \in Threads :
       /\ Succeeded(t)
       /\ frame[u].pc = "idle"
       /\ objArray_of(u) \notin DOMAIN heap
       /\ segment_of(u) \notin DOMAIN segs
  /\ handle_adds = 1

\* C16: two calls on one shape with one and the same parameter that both
\* succeed return two different segments with two different refs arrays,
\* each array holding the parameter, and both segments are on the shape's
\* list: nothing is shared or merged because the arguments are equal.
C16_NoDeduplication ==
  \A t, u \in Threads :
    (t # u /\ Succeeded(t) /\ Succeeded(u)
           /\ frame[t].this = frame[u].this
           /\ frame[t].parameter = frame[u].parameter) =>
      /\ frame[t].ret # frame[u].ret
      /\ segs[frame[t].ret]._refs # segs[frame[u].ret]._refs
      /\ segs[frame[t].ret]._refs \in handles
      /\ segs[frame[u].ret]._refs \in handles
      /\ heap[segs[frame[t].ret]._refs][argument_ref_index + 1] = frame[t].parameter
      /\ heap[segs[frame[u].ret]._refs][argument_ref_index + 1] = frame[u].parameter
      /\ {frame[t].ret, frame[u].ret} \subseteq list_nodes(frame[t].this)
      /\ Len(segment_list(frame[t].this)) >= 2

C16_Witness ==
  \E t, u \in Threads :
    /\ t # u /\ Succeeded(t) /\ Succeeded(u)
    /\ frame[t].this = 3 /\ frame[u].this = 3
    /\ frame[t].parameter = frame[u].parameter
    /\ frame[t].cseg = frame[u].cseg
    /\ frame[t].ret # frame[u].ret

\* C17: the refs array of every segment a call returned has the length
\* _reflen of the call's shape, holds the call's parameter at
\* _argument_ref_index and NULL at every other index.
C17_RefsArrayAtReturn ==
  \A t \in Threads :
    Succeeded(t) =>
      LET refs == heap[segs[frame[t].ret]._refs]
      IN  /\ Len(refs) = infos[frame[t].this]._reflen
          /\ refs[argument_ref_index + 1] = frame[t].parameter
          /\ \A i \in 1 .. Len(refs) : i # argument_ref_index + 1 => refs[i] = NULL

C17_Witness ==
  \E t \in Threads :
    /\ Succeeded(t)
    /\ infos[frame[t].this]._reflen = fixed_ref_limit + 2
    /\ Len(heap[segs[frame[t].ret]._refs]) = fixed_ref_limit + 2
    /\ heap[segs[frame[t].ret]._refs][argument_ref_index + 1] = 12

\* C18: every segment create_segment constructed was allocated in a block
\* of exactly _segment_size_in_words words of its shape, the size the
\* shape got from allocate, its size() is that number, and the assert on
\* it never fails.
C18_InstanceSizeIsShapeSize ==
  /\ vm_error # "assert(seg->size() == (size_t)_segment_size_in_words) failed"
  /\ \A t \in Threads :
       frame[t].seg # NULL =>
         LET sg == frame[t].seg
             n  == frame[t].this
         IN  /\ segs[sg]._info = n
             /\ segs[sg].block_words = infos[n]._segment_size_in_words
             /\ seg_size(sg) = infos[n]._segment_size_in_words
             /\ seg_size(sg) = segs[sg].block_words
             /\ infos[n]._segment_size_in_words = ShapeOf(n)._segment_size_in_words

C18_Witness ==
  \E t, u \in Threads :
    /\ Succeeded(t) /\ Succeeded(u)
    /\ segs[frame[t].ret].block_words = ConstantPoolSegment_header_size
    /\ segs[frame[u].ret].block_words = ConstantPoolSegment_header_size + 2
    /\ seg_size(frame[u].ret) = ConstantPoolSegment_header_size + 2

\* C20: the hook of the shape presents to the closure the address of _pool,
\* the one field of CPSegmentInfo that points to a metaspace object, and
\* nothing else; the head of the shape's list is an element of the pool and
\* is not among the addresses the shape's hook presents.
C20_ShapeHookPresentsPool ==
  closure.ran =>
    /\ pool_slot(a_ret) \in closure.slots
    /\ closure.slots = {pool_slot(a_ret)}
    /\ segment_list_head_slot(a_ret) \notin closure.slots

C20_Witness ==
  /\ closure.ran
  /\ Returned
  /\ Len(s._constants) = MaxConstants
  /\ pool_slot(a_ret) \in closure.slots

\* C20 as stated: the hook of the shape presents both the pointer to the
\* pool and the head of the shape's list.
C20_ShapeHookPresentsPoolAndHead ==
  closure.ran =>
    {pool_slot(a_ret), segment_list_head_slot(a_ret)} \subseteq closure.slots

\* The positions in the descriptor array of the constants that have storage
\* in the segment and a reference in the refs array: all but the Parameter
StoragePositions ==
  {i \in 1 .. Len(descriptors) :
     CInfo_tag(descriptors[i]._index_and_tag) # JVM_CONSTANT_Parameter}

\* C28: a shape allocate returns for k constants (the Parameter and k - 1
\* constants with storage) has _reflen = _fixed_ref_limit + k - 1, a segment
\* size of the segment header plus k - 1 words, and an info size of the info
\* header plus k CInfo records, rounded up to whole words.
C28_FrozenSizes ==
  Returned =>
    LET k == Len(s._constants)
    IN  /\ infos[a_ret]._constant_count = k
        /\ Cardinality(StoragePositions) = k - 1
        /\ infos[a_ret]._reflen = fixed_ref_limit + (k - 1)
        /\ infos[a_ret]._segment_size_in_words * wordSize
             = sizeof_ConstantPoolSegment + (k - 1) * wordSize
        /\ infos[a_ret]._info_size_in_words
             = (sizeof_CPSegmentInfo + k * sizeof_CInfo + wordSize - 1) \div wordSize

C28_Witness ==
  /\ Returned
  /\ Len(s._constants) = MaxConstants
  /\ infos[a_ret]._reflen = fixed_ref_limit + MaxConstants - 1
  /\ infos[a_ret]._info_size_in_words * wordSize
       >= sizeof_CPSegmentInfo + MaxConstants * sizeof_CInfo
  /\ infos[a_ret]._segment_size_in_words
       = ConstantPoolSegment_header_size + MaxConstants - 1

\* C29: in every shape allocate returns, the _offset_in_refs of the
\* descriptors with a reference are pairwise distinct, run from
\* _fixed_ref_limit upwards by one in descriptor order, are none of the
\* fixed indexes (argument, handle, cseg refs) and are below _reflen.
C29_RefSlotsDisjoint ==
  Returned =>
    /\ \A i \in StoragePositions :
         /\ descriptors[i]._offset_in_refs = fixed_ref_limit + (i - 2)
         /\ descriptors[i]._offset_in_refs
              \notin {argument_ref_index, handle_ref_index, cseg_refs_ref_index}
         /\ descriptors[i]._offset_in_refs >= fixed_ref_limit
         /\ descriptors[i]._offset_in_refs < infos[a_ret]._reflen
    /\ \A i, j \in StoragePositions :
         i # j => descriptors[i]._offset_in_refs # descriptors[j]._offset_in_refs

C29_Witness ==
  /\ Returned
  /\ Cardinality(StoragePositions) = MaxConstants - 1
  /\ MaxConstants \in StoragePositions
  /\ descriptors[MaxConstants]._offset_in_refs = infos[a_ret]._reflen - 1

\* C30: in every shape allocate returns, the _offset_in_meta of the
\* descriptors with storage are pairwise distinct, multiples of the word
\* size, not below the segment header, one word apart in descriptor order,
\* and the word at each ends within the segment size of the shape.
C30_MetaSlotsDisjoint ==
  Returned =>
    /\ \A i \in StoragePositions :
         /\ descriptors[i]._offset_in_meta % wordSize = 0
         /\ descriptors[i]._offset_in_meta >= ConstantPoolSegment_header_size * wordSize
         /\ descriptors[i]._offset_in_meta
              = ConstantPoolSegment_header_size * wordSize + (i - 2) * wordSize
         /\ descriptors[i]._offset_in_meta + wordSize
              <= infos[a_ret]._segment_size_in_words * wordSize
    /\ \A i, j \in StoragePositions :
         i # j => descriptors[i]._offset_in_meta # descriptors[j]._offset_in_meta

C30_Witness ==
  /\ Returned
  /\ Cardinality(StoragePositions) = MaxConstants - 1
  /\ MaxConstants \in StoragePositions
  /\ descriptors[MaxConstants]._offset_in_meta + wordSize
       = infos[a_ret]._segment_size_in_words * wordSize

\* C21: the hook of a segment presents to the closure the addresses of
\* exactly three fields, _info, _segment_list_next and _cseg; what the
\* closure wrote through each is what the field holds after the call; the
\* address of _refs is not presented and _refs is not changed.
C21_SegmentHookPresentsThree ==
  /\ [](closure.ran =>
          /\ closure.slots = {seg_slot(HookedSegment, "_info"),
                               seg_slot(HookedSegment, "_segment_list_next"),
                               seg_slot(HookedSegment, "_cseg")}
          /\ Cardinality(closure.slots) = 3
          /\ seg_slot(HookedSegment, "_refs") \notin closure.slots
          /\ \A sl \in closure.slots : segs[sl[2]][sl[3]] = closure.wrote[sl])
  /\ [][segs'[HookedSegment]._refs = segs[HookedSegment]._refs]_vars

C21_Witness ==
  /\ closure.ran
  /\ segs[HookedSegment]._refs = objArray_of(1)
  /\ segs[HookedSegment]._info \in MovedTo
  /\ segs[HookedSegment]._cseg \in MovedTo
  /\ segs[HookedSegment]._segment_list_next \in MovedTo
  /\ segs[HookedSegment]._cseg # segs[HookedSegment]._info

\* C22: whatever create_segment calls have run, finished or not, successful
\* or failed, every shape is as allocate returned it: its kind, _reflen,
\* _info_size_in_words, _segment_size_in_words, _constant_count and every
\* CInfo. Of the state that belongs to a shape only its list head changes,
\* and only through a call on that shape that reached the splice.
C22_ShapeFrozenAfterAllocate ==
  \A n \in Segnums :
    LET returned == ShapeOf(n)
    IN  /\ infos[n]._flags = returned._flags
        /\ infos[n]._reflen = returned._reflen
        /\ infos[n]._info_size_in_words = returned._info_size_in_words
        /\ infos[n]._segment_size_in_words = returned._segment_size_in_words
        /\ infos[n]._constant_count = returned._constant_count
        /\ infos[n].cinfo = returned.cinfo
        /\ (\A t \in Threads : frame[t].this = n => frame[t].links = 0)
             => head[n] = NULL

C22_Witness ==
  \E t, u \in Threads :
    /\ Succeeded(t) /\ frame[t].this = 3
    /\ MetaFailed(u) /\ frame[u].pc = "done" /\ frame[u].this = 3
    /\ head[3] = frame[t].ret
    /\ infos[3] = ShapeOf(3)

HoldingUnregistered ==
  {t \in Threads :
     frame[t].pc \in {"new_segment", "after_new", "lock", "link_next", "link_head"}}
\* The segments on the lists of all shapes
Registered == UNION {list_nodes(n) : n \in Segnums}

\* C26: in every state the handles acquired less the handles released are
\* the handles held: one for each registered segment and one for each call
\* between its add_handle and its splice or rollback. With no call in
\* flight they are as many as the registered segments, and the _refs of a
\* registered segment is a handle that is held.
C26_HandlesBalanced ==
  /\ handle_adds - handle_removes = Cardinality(handles)
  /\ Cardinality(handles)
       = Cardinality(Registered) + Cardinality(HoldingUnregistered)
  /\ \A t \in Threads : frame[t].adds <= 1 /\ frame[t].removes <= frame[t].adds
  /\ \A sg \in Registered : segs[sg]._refs \in handles
  /\ \A sg, sh \in Registered : sg # sh => segs[sg]._refs # segs[sh]._refs
  /\ AllDone => handle_adds - handle_removes = Cardinality(Registered)

C26_Witness ==
  /\ AllDone
  /\ handle_adds = NumThreads
  /\ handle_removes = 1
  /\ Cardinality(Registered) = NumThreads - 1

\* C24: the splice puts the new segment at the head: when the head of a
\* shape changes it becomes the segment of the thread holding the lock,
\* whose next link is the head it replaces (read under the same lock), and
\* the list is the new segment followed by the list as it was; the next
\* link of a segment on a list never changes. While the thread still holds
\* the lock after its splice, its segment is the head.
C24_SpliceAtHead ==
  /\ [](\A t \in Threads :
          frame[t].pc = "unlock" =>
            /\ head[frame[t].this] = frame[t].seg
            /\ Head(segment_list(frame[t].this)) = frame[t].seg)
  /\ [][\A n \in Segnums :
          /\ \A sg \in list_nodes(n) :
               segs'[sg]._segment_list_next = segs[sg]._segment_list_next
          /\ head'[n] # head[n] =>
               \E t \in Threads :
                 /\ lock_owner = t /\ frame[t].pc = "link_head" /\ frame[t].this = n
                 /\ head'[n] = frame[t].seg
                 /\ segs'[frame[t].seg]._segment_list_next = head[n]
                 /\ segment_list(n)' = <<frame[t].seg>> \o segment_list(n)]_vars

C24_Witness ==
  \E t, u \in Threads :
    /\ frame[t].pc = "unlock"
    /\ Succeeded(u)
    /\ frame[u].this = frame[t].this
    /\ segment_list(frame[t].this) = <<frame[t].seg, frame[u].ret>>

\* C27: a step of a call on one shape changes neither the head nor the
\* list of any other shape, though the calls on all shapes take the same
\* lock; and when all calls are done the list of each shape has one node
\* for each successful call on that shape, so two calls on two shapes leave
\* one node on each.
C27_OtherListsUnchanged ==
  /\ [](AllDone =>
          \A n \in Segnums :
            Len(segment_list(n))
              = Cardinality({t \in Threads : Succeeded(t) /\ frame[t].this = n}))
  /\ [][\A t \in Threads :
          Stepped(t) =>
            \A m \in Segnums \ {frame'[t].this} :
              /\ head'[m] = head[m]
              /\ segment_list(m)' = segment_list(m)]_vars

C27_Witness ==
  \E t, u \in Threads :
    /\ Succeeded(u) /\ frame[u].this = 1
    /\ frame[t].pc = "unlock" /\ frame[t].this = 2
    /\ segment_list(1) = <<frame[u].ret>>
    /\ segment_list(2) = <<frame[t].seg>>

\* How far a call has come
pc_rank(pc) ==
  CASE pc = "idle" -> 0
    [] pc = "new_objArray" -> 1
    [] pc = "add_handle" -> 2
    [] pc = "new_segment" -> 3
    [] pc = "after_new" -> 4
    [] pc = "lock" -> 5
    [] pc = "link_next" -> 6
    [] pc = "link_head" -> 7
    [] pc = "unlock" -> 8
    [] pc = "return" -> 9
    [] pc = "done" -> 10

\* C23: with the threads scheduled fairly, and unless an assert stops the
\* VM, the calls in flight all get to their end again and again, which,
\* as a thread makes one call, says that every call that entered
\* create_segment finishes. The lock is held only between its acquisition
\* and the end of its scope, so a finished call has given it up. A call
\* that is done either returned a registered segment with its _refs set
\* or returned NULL with the exception pending. Every step of a call takes
\* it further, so no allocation and no acquisition of the lock is done
\* twice.
C23_CallsFinish ==
  /\ []<>(\/ vm_error # NoError
          \/ \A t \in Threads : frame[t].pc \in {"idle", "done"})
  /\ [](\A t \in Threads :
          lock_owner = t => frame[t].pc \in {"link_next", "link_head", "unlock"})
  /\ [](\A t \in Threads :
          frame[t].pc = "done" =>
            \/ /\ frame[t].ret # NULL /\ ~frame[t].pending
               /\ seg_has_refs(frame[t].ret)
               /\ frame[t].ret \in list_nodes(frame[t].this)
            \/ frame[t].ret = NULL /\ frame[t].pending)
  /\ [](\A t \in Threads : frame[t].adds <= 1 /\ frame[t].links <= 1)
  /\ [][\A t \in Threads :
          /\ Stepped(t) => pc_rank(frame'[t].pc) > pc_rank(frame[t].pc)
          /\ (lock_owner' = t /\ lock_owner # t) => frame[t].pc = "lock"]_vars

C23_Witness ==
  \E t, u \in Threads :
    /\ t # u
    /\ frame[t].pc = "lock"
    /\ lock_owner = u
    /\ frame[u].pc = "unlock"
    /\ frame[u].this = frame[t].this

\* The tags the comparator is used on
ComparedTags == {JVM_CONSTANT_Parameter} \cup SupportedStorageTags
\* The largest index whose packed value is a positive int
MaxPackedIndex == 2147483647 \div (2 ^ index_shift)
\* Packed values of every compared tag: the pool's indexes, the smallest
\* index and the largest
PackedValues ==
  {index_and_tag(i, tg) : i \in {0, 1, 2, 9, MaxPackedIndex}, tg \in ComparedTags}
Sign(x) == IF x < 0 THEN -1 ELSE IF x > 0 THEN 1 ELSE 0
IsInt(x) == x <= 2147483647 /\ -x <= 2147483647

ComparatorLaws ==
  /\ \A a, b \in PackedValues :
       /\ a > 0 /\ b > 0
       /\ IsInt(a - b)
       /\ IsInt(compare_index_and_tag(a, b))
       /\ Sign(compare_index_and_tag(a, b)) = -Sign(compare_index_and_tag(b, a))
       /\ compare_index_and_tag(a, b) = 0 <=> a = b
  /\ \A a, b, c \in PackedValues :
       compare_index_and_tag(a, b) < 0 /\ compare_index_and_tag(b, c) < 0
         => compare_index_and_tag(a, c) < 0

\* C31: on packed values of the tags Parameter, Linkage, InvokeDynamic,
\* Dynamic and MethodHandle the comparator is a strict total order: the
\* sign of compare(a, b) is the opposite of the sign of compare(b, a),
\* compare(a, b) is 0 only for a = b, and compare(a, b) < 0 with
\* compare(b, c) < 0 gives compare(a, c) < 0; it1 - it2 is an int for
\* positive packed values. The values the sort has put in order obey the
\* same laws, and none of them compares above a value after it.
C31_ComparatorTotalOrder ==
  /\ ComparatorLaws
  /\ a_pc # "pass1" =>
       LET its == s._indexes_and_tags
       IN  (\A i \in 1 .. Len(its) : CInfo_tag(its[i]) \in ComparedTags) =>
             \A i, j \in 1 .. Len(its) :
               /\ Sign(compare_index_and_tag(its[i], its[j]))
                    = -Sign(compare_index_and_tag(its[j], its[i]))
               /\ i < j => compare_index_and_tag(its[i], its[j]) <= 0
               /\ its[i] = its[j] <=> compare_index_and_tag(its[i], its[j]) = 0

C31_Witness ==
  /\ a_pc = "copy_sizes"
  /\ Len(s._indexes_and_tags) = 3
  /\ s._indexes_and_tags # push_indexes_and_tags(s._constants)
  /\ \E i, j \in 1 .. 3 :
       /\ i < j
       /\ CInfo_tag(s._indexes_and_tags[i]) = JVM_CONSTANT_Linkage
       /\ CInfo_tag(s._indexes_and_tags[j]) = JVM_CONSTANT_Linkage

\* The orders in which the caller may supply the constants of the list l
OrdersOf(l) ==
  {[i \in 1 .. Len(l) |-> l[f[i]]] : f \in Permutations(1 .. Len(l))}
\* The three offset accumulators of a Setup block
offsets_of(st) ==
  <<st._info_offset_in_bytes, st._segment_offset_in_bytes, st._refs_offset>>

\* C32: what pass 1 leaves (the sorted list, the three offsets, the assert
\* that stopped it) is the same for every order in which the same constants
\* are supplied, and it is what the Setup block holds after pass 1. Pass 2
\* run once more on the shape and the Setup block it has left gives back
\* every descriptor and the three offsets unchanged.
C32_LayoutWalkPure ==
  /\ a_pc # "pass1" =>
       LET given == sizing_pass(Setup_with(s._segnum, s._parameter_index,
                                           s._param_kind, s._constants))
       IN  /\ \A cs \in OrdersOf(s._constants) :
                LET other == sizing_pass(Setup_with(s._segnum, s._parameter_index,
                                                    s._param_kind, cs))
                IN  /\ other.error = given.error
                    /\ other.setup._indexes_and_tags = given.setup._indexes_and_tags
                    /\ offsets_of(other.setup) = offsets_of(given.setup)
           /\ s._indexes_and_tags = given.setup._indexes_and_tags
           /\ a_pc = "copy_sizes" => offsets_of(s) = offsets_of(given.setup)
           /\ (a_pc \in {"new_info", "save"} /\ vm_error = NoError) =>
                /\ offsets_of(s) = offsets_of(given.setup)
                /\ <<s._info_size_in_bytes, s._segment_size_in_bytes, s._refs_length>>
                     = offsets_of(given.setup)
  /\ (a_pc \in {"check", "returned"} /\ s._info # NULL) =>
       LET again == initialize_pass_on(s, infos[s._info])
       IN  /\ again.error = NoError
           /\ again.info = infos[s._info]
           /\ offsets_of(again.setup) = offsets_of(s)
           /\ again.setup = s

C32_Witness ==
  /\ a_pc = "returned"
  /\ a_ret # NULL
  /\ Len(s._constants) >= 3
  /\ s._indexes_and_tags # push_indexes_and_tags(s._constants)
  /\ infos[a_ret].cinfo[3]._offset_in_refs = fixed_ref_limit + 1
  /\ s._refs_offset = fixed_ref_limit + Len(s._constants) - 1

\* The positions of the Parameter-tagged constants in the list given to
\* allocate, and those constants
parameter_positions ==
  {i \in 1 .. Len(s._constants) : tag_at(s._constants[i]) = JVM_CONSTANT_Parameter}
parameter_constants == {s._constants[i] : i \in parameter_positions}
\* The list names one Parameter constant, once, and it is parameter_index
ExactlyTheParameter ==
  /\ Cardinality(parameter_positions) = 1
  /\ parameter_constants = {s._parameter_index}
\* The asserts of pass 1 that a wrong set of Parameter constants can fail
ParameterAsserts ==
  {"assert(0 <= i && i < _len) failed: illegal index",
   "assert(it0 == index_and_tag(parameter_index, Parameter)) failed: correct sort",
   "assert(i == 0) failed: must be"}

\* C33: pass 1 accepts a constant list only when it names one
\* Parameter-tagged constant, once, and that is the one at parameter_index. A list with no
\* Parameter constant, or whose Parameter constant of the lowest index is
\* not parameter_index, fails the assert on the first sorted value (an
\* empty list the bounds assert of at(0)); a list with parameter_index
\* first and one more Parameter constant (parameter_index named again
\* included) fails the loop's assert(i == 0).
\* allocate then goes no further: the sizes are not copied and no info
\* block exists. A list with exactly that one Parameter constant fails none
\* of these asserts.
C33_ExactlyOneParameter ==
  a_pc # "pass1" =>
    /\ ~ExactlyTheParameter =>
         /\ a_pc = "aborted"
         /\ vm_error \in ParameterAsserts
         /\ vm_error = (IF Len(s._constants) = 0
                          THEN "assert(0 <= i && i < _len) failed: illegal index"
                        ELSE IF \/ s._parameter_index \notin parameter_constants
                                \/ \E c \in parameter_constants : c < s._parameter_index
                          THEN "assert(it0 == index_and_tag(parameter_index, Parameter)) failed: correct sort"
                        ELSE "assert(i == 0) failed: must be")
         /\ a_ret = NULL /\ ~a_pending
         /\ s._info = NULL /\ saved = NULL
         /\ s._info_size_in_bytes = -1 /\ s._segment_size_in_bytes = -1
         /\ s._refs_length = -1
         /\ \A n \in Segnums : infos[n] = NULL
    /\ ExactlyTheParameter => vm_error \notin ParameterAsserts

C33_Witness ==
  /\ a_pc = "aborted"
  /\ vm_error = "assert(i == 0) failed: must be"
  /\ s._parameter_index \in parameter_constants
  /\ Cardinality(parameter_positions) = 2
  /\ s._indexes_and_tags[1] = index_and_tag(s._parameter_index, JVM_CONSTANT_Parameter)
  /\ \A n \in Segnums : infos[n] = NULL

\* The (index, tag) pair read back from the descriptor at position i, and
\* the pair of the constant the caller named at position k
descriptor_pair(i) ==
  <<CInfo_index(descriptors[i]._index_and_tag), CInfo_tag(descriptors[i]._index_and_tag)>>
constant_pair(k) == <<s._constants[k], tag_at(s._constants[k])>>
\* How often a pair occurs among the descriptors and among the constants
count_in_descriptors(pair) ==
  Cardinality({i \in 1 .. Len(descriptors) : descriptor_pair(i) = pair})
count_in_constants(pair) ==
  Cardinality({k \in 1 .. Len(s._constants) : constant_pair(k) = pair})

\* C34: the descriptor array of a shape allocate returns has one descriptor
\* per constant supplied, and every (index, tag) pair occurs among the
\* descriptors (read back with index() and tag()) as often as among the
\* constants supplied (with the pool's tag at the index): a constant named
\* twice has two descriptors, and no descriptor is of a constant not named.
C34_DescriptorsPermuteConstants ==
  Returned =>
    /\ Len(descriptors) = Len(s._constants)
    /\ infos[a_ret]._constant_count = Len(s._constants)
    /\ \A k \in 1 .. Len(s._constants) :
         count_in_descriptors(constant_pair(k)) = count_in_constants(constant_pair(k))
    /\ \A i \in 1 .. Len(descriptors) :
         count_in_constants(descriptor_pair(i)) = count_in_descriptors(descriptor_pair(i))

C34_Witness ==
  /\ Returned
  /\ Len(s._constants) = 3
  /\ s._constants[1] = s._constants[3]
  /\ s._constants[2] = s._parameter_index
  /\ descriptors[2]._index_and_tag = descriptors[3]._index_and_tag
  /\ descriptors[2]._offset_in_refs # descriptors[3]._offset_in_refs

\* C35: in every state, every segment the constructor has built has the
\* kind of its shape when the kind is read off its class link: a segment
\* of a class shape links to itself, a segment of a combined shape links to
\* another segment, a segment of a method-only shape has no link.
C35_InstanceKindIsShapeKind ==
  \A sg \in DOMAIN segs :
    LET kind == info_param_kind(infos[segs[sg]._info])
    IN  /\ seg_param_kind(sg) = kind
        /\ kind = JVM_PARAM_Class <=> segs[sg]._cseg = sg
        /\ kind = JVM_PARAM_MethodAndClass <=> segs[sg]._cseg \notin {NULL, sg}
        /\ kind = JVM_PARAM_MethodOnly <=> segs[sg]._cseg = NULL

C35_Witness ==
  \E t, u \in Threads :
    /\ Succeeded(t) /\ Succeeded(u)
    /\ frame[t].entry = "new_method_segment"
    /\ info_is_method_and_class(infos[frame[t].this])
    /\ segs[frame[t].ret]._cseg \notin {NULL, frame[t].ret}
    /\ frame[u].entry = "new_class_segment"
    /\ segs[frame[u].ret]._cseg = frame[u].ret
====
